---- MODULE Spec2Model ----
(***************************************************************************)
(* Model of the trip simulation engine of full_pipeline_cached.py: the     *)
(* day x hour loop of main(), the per-day congestion counters, the         *)
(* penalty of a path, the shared id counter and the two trip logs.         *)
(*                                                                         *)
(* Numbers.  The program computes with floats; the model uses exact        *)
(* integers.  Penalties and delays are in thousandths (0.2 = 200), the     *)
(* rounded penalty of a record in hundredths (0.57 = 57), distances and    *)
(* routing weights in hundredths of a km, multipliers and zone factors in  *)
(* tenths.  int(base * multiplier * zone_factor) agrees with the exact     *)
(* floor for every base in 0..10 and every multiplier and factor of the    *)
(* program.                                                                *)
(***************************************************************************)
EXTENDS Integers, Sequences, FiniteSets, TLC

\* ------------------------------------------------------------------ bounds

\* The values tried for days_to_simulate and intersections_per_hour, which the
\* program reads with int(input(...)): any integer can be typed.
DaysInputs == {-1, 0, 1, 2}

IPHInputs == {-1, 0, 1}

\* Larger samples, tried on the smallest graph only.
MoreIPHInputs == {2, 3}

\* for hour in range(0, 24)
HoursOfDay == 24

\* Runs that emit trips are followed through the first MaxHours hours of each
\* day only; runs of whole days are followed on the smallest graph.
MaxHours == 2
\* Cap on the iterations of the two trip loops over a whole run: simulate_count
\* draws are limited to what is left of it.
MaxTrips == 2
\* Cap on a usage counter when the penalty is tried on its own.
MaxUsage == 3
\* The days for which the weekend flag and the time multiplier are tried on their own.
MaxDays == 14

\* ------------------------------------------------------------- small helpers

Last(s) == s[Len(s)]

Range(s) == {s[i] : i \in 1..Len(s)}

Min(a, b) == IF a <= b THEN a ELSE b

Max(a, b) == IF a >= b THEN a ELSE b

RECURSIVE SumSeq(_)
SumSeq(s) == IF s = <<>> THEN 0 ELSE Head(s) + SumSeq(Tail(s))

\* dict.get(key, default) on a dict modelled as a function
Get(d, k, default) == IF k \in DOMAIN d THEN d[k] ELSE default

\* The items of the list s that are in S, in the order of s.
RECURSIVE Filter(_, _)
Filter(s, S) ==
    IF s = <<>> THEN <<>>
    ELSE IF Head(s) \in S THEN <<Head(s)>> \o Filter(Tail(s), S)
    ELSE Filter(Tail(s), S)

Reverse(s) == [i \in 1..Len(s) |-> s[Len(s) + 1 - i]]

\* -------------------------------------------------------------- road network

Letters == <<"A", "B", "C", "D", "E">>

\* node_name(r, c) = chr(65 + r) + str(c + 1)
node_name(r, c) == Letters[r + 1] \o ToString(c + 1)

\* The nodes the first double loop of the generator adds.
GridNodes(rows, cols) == {node_name(r, c) : r \in 0..(rows - 1), c \in 0..(cols - 1)}

\* The directed roads the second double loop adds: to the right and downwards.
GridEdges(rows, cols) ==
    {<<node_name(r, c), node_name(r, c + 1)>> : r \in 0..(rows - 1), c \in 0..(cols - 2)}
    \cup {<<node_name(r, c), node_name(r + 1, c)>> : r \in 0..(rows - 2), c \in 0..(cols - 1)}

\* add_edge_with_metadata: weight = distance + delay (delay 0.1 = 10 hundredths of routing weight)
EdgeData(distance, capacity, delay) ==
    [weight |-> distance + delay \div 10, distance |-> distance, capacity |-> capacity, delay |-> delay]

\* G.add_node(name, zone=..., traffic_light=..., traffic_light_delay=...)
NodeData(zone, light, lightDelay) ==
    [zone |-> zone, traffic_light |-> light, traffic_light_delay |-> lightDelay]

\* Graphs generate_grid_with_correct_streetlights can return (the zones of
\* row 0 are always residential, the other attributes are random draws).
\* A 2 x 2 grid: two routes A1 -> B2, and pairs with no path (B2 has no way out).
GridA ==
    [rows |-> 2, cols |-> 2,
     node |-> [n \in GridNodes(2, 2) |->
                 CASE n = "A1" -> NodeData("residential", TRUE, 120)
                   [] n = "A2" -> NodeData("residential", FALSE, 0)
                   [] n = "B1" -> NodeData("commercial", TRUE, 250)
                   [] n = "B2" -> NodeData("industrial", FALSE, 0)],
     edge |-> [e \in GridEdges(2, 2) |->
                 CASE e = <<"A1", "A2">> -> EdgeData(120, 250, 100)
                   [] e = <<"A1", "B1">> -> EdgeData(250, 500, 0)
                   [] e = <<"A2", "B2">> -> EdgeData(80, 300, 0)
                   [] e = <<"B1", "B2">> -> EdgeData(100, 150, 100)]]

\* A 5 x 1 grid: one chain of four roads; the only commercial intersection is in
\* the middle, so it has no vehicle destination and the two below cannot reach one.
GridB ==
    [rows |-> 5, cols |-> 1,
     node |-> [n \in GridNodes(5, 1) |->
                 CASE n = "A1" -> NodeData("residential", FALSE, 0)
                   [] n = "B1" -> NodeData("residential", TRUE, 60)
                   [] n = "C1" -> NodeData("commercial", FALSE, 0)
                   [] n = "D1" -> NodeData("park", TRUE, 300)
                   [] n = "E1" -> NodeData("park", FALSE, 0)],
     edge |-> [e \in GridEdges(5, 1) |->
                 CASE e = <<"A1", "B1">> -> EdgeData(150, 200, 0)
                   [] e = <<"B1", "C1">> -> EdgeData(300, 800, 100)
                   [] e = <<"C1", "D1">> -> EdgeData(50, 100, 0)
                   [] e = <<"D1", "E1">> -> EdgeData(200, 299, 100)]]

\* A 1 x 2 grid: every intersection residential, so no vehicle destination exists.
GridC ==
    [rows |-> 1, cols |-> 2,
     node |-> [n \in GridNodes(1, 2) |->
                 CASE n = "A1" -> NodeData("residential", TRUE, 50)
                   [] n = "A2" -> NodeData("residential", FALSE, 0)],
     edge |-> [e \in GridEdges(1, 2) |-> EdgeData(400, 650, 0)]]

\* A 3 x 1 grid with a single residential intersection: a sample of two origins
\* has to be drawn from all intersections.
GridE ==
    [rows |-> 3, cols |-> 1,
     node |-> [n \in GridNodes(3, 1) |->
                 CASE n = "A1" -> NodeData("residential", FALSE, 0)
                   [] n = "B1" -> NodeData("industrial", TRUE, 80)
                   [] n = "C1" -> NodeData("commercial", FALSE, 0)],
     edge |-> [e \in GridEdges(3, 1) |->
                 CASE e = <<"A1", "B1">> -> EdgeData(200, 400, 0)
                   [] e = <<"B1", "C1">> -> EdgeData(90, 120, 100)]]

\* A 1 x 3 network as another provider could hand it over, with attributes left
\* out: a road without capacity and delay, a road without delay, an intersection
\* with a light but no delay and one without the traffic_light attribute.
GridD ==
    [rows |-> 1, cols |-> 3,
     node |-> [n \in GridNodes(1, 3) |->
                 CASE n = "A1" -> [zone |-> "residential", traffic_light |-> TRUE]
                   [] n = "A2" -> [zone |-> "residential"]
                   [] n = "A3" -> NodeData("residential", TRUE, 200)],
     edge |-> [e \in GridEdges(1, 3) |->
                 CASE e = <<"A1", "A2">> -> [weight |-> 100, distance |-> 100]
                   [] e = <<"A2", "A3">> -> [weight |-> 150, distance |-> 150, capacity |-> 250]]]

\* The graphs the penalty is tried on.
PenaltyGraphs == {GridA, GridB, GridC, GridD}

\* The graphs the simulation is run on.
Grids == {GridB, GridC}

\* list(G.nodes()): the nodes in the order the generator added them (row by row).
NodeList(G) == [i \in 1..(G.rows * G.cols) |-> node_name((i - 1) \div G.cols, (i - 1) % G.cols)]

\* The order in which a set of node names is enumerated depends on the string
\* hashes of the process, which Python randomises per process.  Two of the
\* possible orders are modelled.
SetOrders(G) == {NodeList(G), Reverse(NodeList(G))}

\* G.get_edge_data(u, v, default={}): the attribute dict of the road, {} when there is none
get_edge_data(G, u, v) == IF <<u, v>> \in DOMAIN G.edge THEN G.edge[<<u, v>>] ELSE <<>>

\* ------------------------------------------------------------------ Path Index

\* All chains of roads of G, by length: the graph is acyclic, so Cardinality(nodes) rounds suffice.
RECURSIVE Chains(_, _, _)
Chains(G, P, k) ==
    IF k = 0 THEN P
    ELSE Chains(G,
                P \cup UNION {{Append(p, e[2]) : e \in {d \in DOMAIN G.edge : d[1] = Last(p)}} : p \in P},
                k - 1)

AllChains(G) == Chains(G, {<<n>> : n \in DOMAIN G.node}, Cardinality(DOMAIN G.node))

\* The routing weight of a chain: the sum of the 'weight' attribute of its roads.
ChainWeight(G, p) == SumSeq([i \in 1..(Len(p) - 1) |-> Get(G.edge[<<p[i], p[i + 1]>>], "weight", 1)])

\* dict(nx.all_pairs_dijkstra_path(G, weight='weight')): for every source, the
\* lightest chain to every target it can reach (itself included).  The graphs
\* above have no two lightest chains of equal weight.
all_pairs_dijkstra_path(G) ==
    LET chains == AllChains(G)
        Reach(s) == {Last(p) : p \in {q \in chains : q[1] = s}}
        Lightest(s, t) ==
            CHOOSE p \in chains :
                /\ p[1] = s /\ Last(p) = t
                /\ \A q \in chains : (q[1] = s /\ Last(q) = t) => ChainWeight(G, p) <= ChainWeight(G, q)
    IN  [s \in DOMAIN G.node |-> [t \in Reach(s) |-> Lightest(s, t)]]

\* ---------------------------------------------------------- Congestion Tracker

\* live_congestion.get((u, v), 0)
Usage(lc, e) == Get(lc, e, 0)

\* A recording that counts the first road of the path only.
updateFirstRoadOnly(lc, path) ==
    IF Len(path) < 2 THEN lc
    ELSE LET e == <<path[1], path[2]>>
         IN  [k \in DOMAIN lc \cup {e} |-> IF k = e THEN Get(lc, e, 0) + 1 ELSE lc[k]]

\* update_live_congestion(path): one more traversal on every road of the path
RECURSIVE update_live_congestion(_, _)
update_live_congestion(lc, path) ==
    IF Len(path) < 2 THEN lc
    ELSE LET e == <<path[1], path[2]>>
             lc1 == [k \in DOMAIN lc \cup {e} |-> IF k = e THEN Usage(lc, e) + 1 ELSE lc[k]]
         IN  update_live_congestion(lc1, Tail(path))

\* A day start that forgets to clear the counters.
ClearCongestionKeeps(lc) == lc

\* live_congestion.clear()
ClearCongestion(lc) == <<>>

\* A base of 0.1 for the roads of high capacity.
BaseCongestionLow(edge_data) == IF Get(edge_data, "capacity", 300) >= 300 THEN 100 ELSE 500

\* A threshold that leaves a capacity of exactly 300 on the congested side.
BaseCongestionStrict(edge_data) == IF Get(edge_data, "capacity", 300) > 300 THEN 200 ELSE 500

\* base = 0.2 if edge_data.get("capacity", 300) >= 300 else 0.5
BaseCongestion(edge_data) == IF Get(edge_data, "capacity", 300) >= 300 THEN 200 ELSE 500

\* A penalty that falls with the usage.
DynamicPenaltyFalling(base, usage) == (base * (1000 - usage * 50)) \div 1000

\* dynamic_penalty = base * (1 + usage * 0.05)
DynamicPenalty(base, usage) == (base * (1000 + usage * 50)) \div 1000

\* One pass of the loop of get_path_congestion_penalty, for the road (u, v).
PenaltyStep(G, lc, u, v) ==
    LET edge_data == get_edge_data(G, u, v)
        road == IF DOMAIN edge_data # {}
                THEN DynamicPenalty(BaseCongestion(edge_data), Usage(lc, <<u, v>>))
                     + Get(edge_data, "delay", 0)
                ELSE 0
        light == IF Get(G.node[u], "traffic_light", FALSE)
                 THEN Get(G.node[u], "traffic_light_delay", 0)
                 ELSE 0
    IN  road + light

\* get_path_congestion_penalty(path), in thousandths
RECURSIVE get_path_congestion_penalty(_, _, _)
get_path_congestion_penalty(G, lc, path) ==
    IF Len(path) < 2 THEN 0
    ELSE PenaltyStep(G, lc, path[1], path[2]) + get_path_congestion_penalty(G, lc, Tail(path))

\* round(congestion_delay, 2), thousandths to hundredths.  A value ending in 5
\* thousandths goes up or down with its binary representation in the program;
\* the model rounds it to the even neighbour.  No formula below depends on it.
Round2(m) ==
    LET q == m \div 10
        r == m % 10
    IN  IF r < 5 THEN q ELSE IF r > 5 THEN q + 1 ELSE IF q % 2 = 0 THEN q ELSE q + 1

\* ------------------------------------------------------------ Demand Generator

\* traffic_multiplier(hour, is_weekend), in tenths
traffic_multiplier(hour, is_weekend) ==
    IF is_weekend
    THEN IF 14 <= hour /\ hour <= 18 THEN 15 ELSE 6
    ELSE IF 7 <= hour /\ hour <= 9 THEN 20
    ELSE IF 17 <= hour /\ hour <= 20 THEN 25
    ELSE IF 12 <= hour /\ hour <= 14 THEN 7
    ELSE IF 0 <= hour /\ hour <= 5 THEN 3
    ELSE 5

\* The zone_factor table of simulate_count, in tenths; .get(zone, 1.0)
zone_factor(zone) ==
    CASE zone = "residential" -> 10
      [] zone = "commercial" -> 12
      [] zone = "industrial" -> 8
      [] zone = "park" -> 5
      [] OTHER -> 10

\* simulate_count(hour, max_val, is_weekend, zone) for the draw base of random.randint(0, max_val)
simulate_count(base, hour, is_weekend, zone) ==
    Max((base * traffic_multiplier(hour, is_weekend) * zone_factor(zone)) \div 100, 0)

\* The values simulate_count can return.
SimulateCounts(hour, max_val, is_weekend, zone) ==
    {simulate_count(base, hour, is_weekend, zone) : base \in 0..max_val}

\* A weekend on the fifth and sixth day of every seven.
IsWeekendFiveSix(d) == (d % 7) \in {5, 6}

\* is_weekend = (day % 7) in (6, 0)
IsWeekend(d) == (d % 7) \in {6, 0}

\* A sample drawn with replacement: every draw indexes the whole list.
RECURSIVE SampleWithReplacement(_, _)
SampleWithReplacement(pool, js) ==
    IF js = <<>> THEN <<>>
    ELSE <<pool[Head(js) + 1]>> \o SampleWithReplacement(pool, Tail(js))

\* random.sample(pool, k) of CPython for a short list: k draws js[i] below the
\* number of items left, each taking pool[js[i]] and moving the last item into its place.
RECURSIVE Sample(_, _)
Sample(pool, js) ==
    IF js = <<>> THEN <<>>
    ELSE LET n == Len(pool)
             j == Head(js) + 1
             rest == [i \in 1..(n - 1) |-> IF i = j THEN pool[n] ELSE pool[i]]
         IN  <<pool[j]>> \o Sample(rest, Tail(js))

\* The draws random.sample makes for k items out of n.
SampleDraws(n, k) == {js \in [1..k -> 0..(n - 1)] : \A i \in 1..k : js[i] <= n - i}

\* format_path(path) = "->".join(path) with the arrow of the program
RECURSIVE format_path(_)
format_path(path) ==
    IF Len(path) = 0 THEN ""
    ELSE IF Len(path) = 1 THEN path[1]
    ELSE path[1] \o "→" \o format_path(Tail(path))

\* f"{n:05d}": at least five digits, never truncated
Pad5(n) ==
    IF n < 10 THEN "0000" \o ToString(n)
    ELSE IF n < 100 THEN "000" \o ToString(n)
    ELSE IF n < 1000 THEN "00" \o ToString(n)
    ELSE IF n < 10000 THEN "0" \o ToString(n)
    ELSE ToString(n)

\* f"veh_{id_counter:05d}" and f"ped_{id_counter:05d}"
FormatId(prefix, n) == prefix \o "_" \o Pad5(n)


\* ------------------------------------------------------------------ main(): state

VARIABLES
    G,                       \* the road network returned by the generator
    set_order,               \* the order in which this process enumerates a set of nodes
    precomputed_paths,       \* the all-pairs table, built once
    intersections_per_hour,  \* int(input(...))
    days_to_simulate,        \* int(input(...))
    hours_in_day,            \* the length of the hour loop's range: 24, or MaxHours when the
                             \* run is followed through the first hours of each day only
    pc,                      \* where main() is: "day_loop", "hour_loop", "origin_loop",
                             \* "veh_loop", "ped_loop", "completed" or "aborted"; "called" and
                             \* "returned" when the penalty function is tried on its own
    day,                     \* loop variable of the day loop (0 before the first day)
    hour,                    \* loop variable of the hour loop
    hour_it,                 \* the next value of the hour loop's range iterator
    id_counter,
    live_congestion,         \* dict (u, v) -> traversals of the current day
    vehicle_log,             \* the records of the current hour
    pedestrian_log,
    vehicles_csv,            \* the rows appended to vehicles_log_<suffix>.csv by this run
    pedestrians_csv,
    origins,                 \* the sampled origins of the hour not yet processed
    start,                   \* the origin being processed
    veh_left,                \* iterations left of range(veh_count)
    ped_left,                \* iterations left of range(ped_count)
    dest,                    \* the destination drawn last
    trips,                   \* iterations of the trip loops so far (for MaxTrips only)
    mode,                    \* the random module: "free" (any value), "record" (any value,
                             \* kept on the tape) or "replay" (the values of the tape)
    tape,                    \* the calls of the random module and the values they returned
    tape_pos,                \* the next tape entry to replay
    first_run,               \* the two files of the recorded run, once it is over
    pen_path,                \* the argument of the last call of get_path_congestion_penalty
    pen_value,               \* and what it returned, when the function is tried on its own
    mult_weekend,            \* is_weekend as line 122 computed it last, and
    mult_value               \* what traffic_multiplier returned, when they are tried on their own

program == <<pc, day, hour, hour_it, id_counter, live_congestion, vehicle_log, pedestrian_log,
             vehicles_csv, pedestrians_csv, origins, start, veh_left, ped_left, dest, trips>>

config == <<G, precomputed_paths, intersections_per_hour, days_to_simulate, hours_in_day>>

probe == <<pen_path, pen_value, mult_weekend, mult_value>>

vars == <<config, set_order, program, mode, tape, tape_pos, first_run, probe>>

\* intersections = list(G.nodes())
intersections == NodeList(G)

\* residential_nodes = [n for n, d in G.nodes(data=True) if d.get("zone") == "residential"]
residential_nodes ==
    Filter(intersections, {n \in DOMAIN G.node : Get(G.node[n], "zone", "none") = "residential"})

\* zones = {node: G.nodes[node].get("zone", "residential") for node in intersections}
zones == [n \in Range(intersections) |-> Get(G.node[n], "zone", "residential")]

\* A destination list without the zone condition.
possibleDestsAnyZone(s) == Filter(intersections, {n \in DOMAIN zones : n # s})

\* possible_dests = [n for n, z in zones.items() if n != start and z in ("commercial", "industrial")]
possible_dests(s) ==
    Filter(intersections,
           {n \in DOMAIN zones : n # s /\ zones[n] \in {"commercial", "industrial"}})

\* A nearby list that admits paths of five intersections (four roads).
nearbyFourRoads(s) ==
    Filter(intersections,
           {n \in Range(intersections) :
               n # s /\ n \in DOMAIN precomputed_paths[s] /\ Len(precomputed_paths[s][n]) <= 5})

\* nearby = [n for n in intersections if n != start and n in precomputed_paths[start]
\*           and len(precomputed_paths[start][n]) <= 4]
nearby(s) ==
    Filter(intersections,
           {n \in Range(intersections) :
               n # s /\ n \in DOMAIN precomputed_paths[s] /\ Len(precomputed_paths[s][n]) <= 4})

\* The list random.choice draws the pedestrian destination from (line 169).
PedestrianDests(s) == IF nearby(s) # <<>> THEN nearby(s) ELSE intersections

\* population = list(set(population)), for the branch random.random() < 0.8
\* (residential) or the other: the set, in the order of the process.
Population(residential) ==
    LET population ==
            IF residential
            THEN IF Len(residential_nodes) >= intersections_per_hour
                 THEN residential_nodes
                 ELSE residential_nodes \o intersections
            ELSE intersections
    IN  Filter(set_order, Range(population))

\* The recording done first, so that the trip pays for its own traversal.
ProcessTripRecordFirst(lc, path) ==
    [congestion_delay |-> get_path_congestion_penalty(G, update_live_congestion(lc, path), path),
     live_congestion |-> update_live_congestion(lc, path)]

\* Lines 148-150 for a path found: the penalty from the counters as they are, then the recording.
ProcessTrip(lc, path) ==
    [congestion_delay |-> get_path_congestion_penalty(G, lc, path),
     live_congestion |-> update_live_congestion(lc, path)]

\* The dict appended to a log (type and weight, which no counter or id depends on, are left out).
TripRecord(prefix, n, from, to, path, h, d, congestion_delay) ==
    [id |-> FormatId(prefix, n), from |-> from, to |-> to, path |-> format_path(path),
     hour |-> h, day |-> d, congestion_penalty |-> Round2(congestion_delay)]

\* An id counter that is never advanced.
NextIdStuck(n) == n

\* id_counter += 1
NextId(n) == n + 1

\* The state of main() at line 120, before the day loop.
ProgramStart ==
    /\ pc = "day_loop"
    /\ day = 0
    /\ hour = 0
    /\ hour_it = 0
    /\ id_counter = 1
    /\ live_congestion = <<>>
    /\ vehicle_log = <<>>
    /\ pedestrian_log = <<>>
    /\ vehicles_csv = <<>>
    /\ pedestrians_csv = <<>>
    /\ origins = <<>>
    /\ start = ""
    /\ veh_left = 0
    /\ ped_left = 0
    /\ dest = ""
    /\ trips = 0

StartHours(m, graphs, iphs, dayss, hours) ==
    /\ hours_in_day = hours
    /\ G \in graphs
    /\ set_order \in SetOrders(G)
    /\ precomputed_paths = all_pairs_dijkstra_path(G)
    /\ intersections_per_hour \in iphs
    /\ days_to_simulate \in dayss
    /\ ProgramStart
    /\ mode = m
    /\ tape = <<>>
    /\ tape_pos = 1
    /\ first_run = <<>>
    /\ pen_path = <<>>
    /\ pen_value = 0
    /\ mult_weekend = FALSE
    /\ mult_value = 0

Start(m, graphs, iphs, dayss) == StartHours(m, graphs, iphs, dayss, MaxHours)

Init ==
    \/ Start("free", Grids, IPHInputs, DaysInputs)
    \/ Start("free", {GridC}, MoreIPHInputs, DaysInputs)
    \/ Start("free", {GridE}, {2}, {1})
    \/ StartHours("free", {GridC}, {0}, {1, 2}, HoursOfDay)

\* A call of the random module at `site` with the arguments `args` returns `val`.
Rand(site, args, val) ==
    /\ UNCHANGED <<mode, first_run>>
    /\ CASE mode = "free" -> UNCHANGED <<tape, tape_pos>>
         [] mode = "record" -> tape' = Append(tape, <<site, args, val>>) /\ UNCHANGED tape_pos
         [] mode = "replay" ->
                /\ tape_pos <= Len(tape)
                /\ tape[tape_pos][1] = site
                /\ tape[tape_pos] = <<site, args, val>>
                /\ tape_pos' = tape_pos + 1
                /\ UNCHANGED tape

NoRand == UNCHANGED <<mode, tape, tape_pos, first_run>>

\* ---------------------------------------------------------------- main(): steps

\* A day start that also restarts the id counter.
DayStartResetsIds ==
    /\ pc = "day_loop"
    /\ day < days_to_simulate
    /\ day' = day + 1
    /\ live_congestion' = ClearCongestion(live_congestion)
    /\ id_counter' = 1
    /\ hour_it' = 0
    /\ pc' = "hour_loop"
    /\ NoRand
    /\ UNCHANGED <<config, probe, set_order, hour, vehicle_log, pedestrian_log,
                   vehicles_csv, pedestrians_csv, origins, start, veh_left, ped_left, dest, trips>>

\* for day in range(1, days_to_simulate + 1): is_weekend = ...; live_congestion.clear()
DayStart ==
    /\ pc = "day_loop"
    /\ day < days_to_simulate
    /\ day' = day + 1
    /\ live_congestion' = ClearCongestion(live_congestion)
    /\ hour_it' = 0
    /\ pc' = "hour_loop"
    /\ NoRand
    /\ UNCHANGED <<config, probe, set_order, hour, id_counter, vehicle_log, pedestrian_log,
                   vehicles_csv, pedestrians_csv, origins, start, veh_left, ped_left, dest, trips>>

\* The day loop is exhausted: print("Full realistic cached simulation completed!")
RunCompleted ==
    /\ pc = "day_loop"
    /\ ~(day < days_to_simulate)
    /\ pc' = "completed"
    /\ NoRand
    /\ UNCHANGED <<config, probe, set_order, day, hour, hour_it, id_counter, live_congestion,
                   vehicle_log, pedestrian_log, vehicles_csv, pedestrians_csv, origins, start,
                   veh_left, ped_left, dest, trips>>

\* An hour start that clears the counters, as if congestion were per hour.
HourStartClears ==
    /\ pc = "hour_loop"
    /\ hour_it < hours_in_day
    /\ \E residential \in BOOLEAN :
         LET population == Population(residential)
             k == Min(intersections_per_hour, Len(population))
         IN  /\ k >= 0
             /\ \E js \in SampleDraws(Len(population), k) :
                    /\ origins' = Sample(population, js)
                    /\ Rand("sample", <<Len(population), k>>, <<residential, js>>)
    /\ hour' = hour_it
    /\ hour_it' = hour_it + 1
    /\ vehicle_log' = <<>>
    /\ pedestrian_log' = <<>>
    /\ live_congestion' = <<>>
    /\ pc' = "origin_loop"
    /\ UNCHANGED <<config, probe, set_order, day, id_counter, vehicles_csv,
                   pedestrians_csv, start, veh_left, ped_left, dest, trips>>

\* for hour in range(0, 24): the two logs are emptied, the population is chosen
\* and put in the order of the process, and random.sample draws the origins.
HourStart ==
    /\ pc = "hour_loop"
    /\ hour_it < hours_in_day
    /\ \E residential \in BOOLEAN :
         LET population == Population(residential)
             k == Min(intersections_per_hour, Len(population))
         IN  /\ k >= 0
             /\ \E js \in SampleDraws(Len(population), k) :
                    /\ origins' = Sample(population, js)
                    /\ Rand("sample", <<Len(population), k>>, <<residential, js>>)
    /\ hour' = hour_it
    /\ hour_it' = hour_it + 1
    /\ vehicle_log' = <<>>
    /\ pedestrian_log' = <<>>
    /\ pc' = "origin_loop"
    /\ UNCHANGED <<config, probe, set_order, day, id_counter, live_congestion, vehicles_csv,
                   pedestrians_csv, start, veh_left, ped_left, dest, trips>>

\* random.sample(population, k) with k < 0 raises ValueError: the run ends in a traceback.
HourSampleError ==
    /\ pc = "hour_loop"
    /\ hour_it < hours_in_day
    /\ \E residential \in BOOLEAN :
         /\ Min(intersections_per_hour, Len(Population(residential))) < 0
         /\ Rand("sample", <<Len(Population(residential)), intersections_per_hour>>, <<residential>>)
    /\ hour' = hour_it
    /\ hour_it' = hour_it + 1
    /\ vehicle_log' = <<>>
    /\ pedestrian_log' = <<>>
    /\ pc' = "aborted"
    /\ UNCHANGED <<config, probe, set_order, day, id_counter, live_congestion, vehicles_csv,
                   pedestrians_csv, origins, start, veh_left, ped_left, dest, trips>>

\* An hour loop that can be left after any hour.
DayEndEarly ==
    /\ pc = "hour_loop"
    /\ hour_it >= 1
    /\ pc' = "day_loop"
    /\ NoRand
    /\ UNCHANGED <<config, probe, set_order, day, hour, hour_it, id_counter, live_congestion,
                   vehicle_log, pedestrian_log, vehicles_csv, pedestrians_csv, origins, start,
                   veh_left, ped_left, dest, trips>>

\* The hour loop is exhausted: back to the day loop.
DayEnd ==
    /\ pc = "hour_loop"
    /\ ~(hour_it < hours_in_day)
    /\ pc' = "day_loop"
    /\ NoRand
    /\ UNCHANGED <<config, probe, set_order, day, hour, hour_it, id_counter, live_congestion,
                   vehicle_log, pedestrian_log, vehicles_csv, pedestrians_csv, origins, start,
                   veh_left, ped_left, dest, trips>>

\* for start in <sample>: the two counts are drawn (lines 136-140).
OriginStart ==
    /\ pc = "origin_loop"
    /\ origins # <<>>
    /\ start' = Head(origins)
    /\ origins' = Tail(origins)
    /\ \E veh_count \in SimulateCounts(hour, 10, IsWeekend(day), zones[Head(origins)]),
          ped_count \in SimulateCounts(hour, 6, IsWeekend(day), zones[Head(origins)]) :
            /\ veh_count + ped_count <= MaxTrips - trips
            /\ veh_left' = veh_count
            /\ ped_left' = ped_count
            /\ Rand("randint", <<hour, IsWeekend(day), zones[Head(origins)]>>,
                    <<veh_count, ped_count>>)
    /\ pc' = "veh_loop"
    /\ UNCHANGED <<config, probe, set_order, day, hour, hour_it, id_counter, live_congestion,
                   vehicle_log, pedestrian_log, vehicles_csv, pedestrians_csv, dest, trips>>

\* The origins of the hour are exhausted: non-empty logs are appended to the files (lines 190-193).
HourEnd ==
    /\ pc = "origin_loop"
    /\ origins = <<>>
    /\ vehicles_csv' = IF vehicle_log # <<>> THEN vehicles_csv \o vehicle_log ELSE vehicles_csv
    /\ pedestrians_csv' =
          IF pedestrian_log # <<>> THEN pedestrians_csv \o pedestrian_log ELSE pedestrians_csv
    /\ pc' = "hour_loop"
    /\ NoRand
    /\ UNCHANGED <<config, probe, set_order, day, hour, hour_it, id_counter, live_congestion,
                   vehicle_log, pedestrian_log, origins, start, veh_left, ped_left, dest, trips>>

\* for _ in range(veh_count): if not possible_dests: continue
VehicleSkip ==
    /\ pc = "veh_loop"
    /\ veh_left > 0
    /\ possible_dests(start) = <<>>
    /\ veh_left' = veh_left - 1
    /\ trips' = trips + 1
    /\ NoRand
    /\ UNCHANGED <<config, probe, set_order, pc, day, hour, hour_it, id_counter, live_congestion,
                   vehicle_log, pedestrian_log, vehicles_csv, pedestrians_csv, origins, start,
                   ped_left, dest>>

\* A dropped vehicle trip that still takes an id.
VehicleDropTakesId ==
    /\ pc = "veh_loop"
    /\ veh_left > 0
    /\ \E i \in 1..Len(possible_dests(start)) :
         LET d == possible_dests(start)[i]
         IN  /\ d \notin DOMAIN precomputed_paths[start]
             /\ dest' = d
             /\ Rand("choice", <<Len(possible_dests(start))>>, <<i>>)
    /\ id_counter' = NextId(id_counter)
    /\ veh_left' = veh_left - 1
    /\ trips' = trips + 1
    /\ UNCHANGED <<config, probe, set_order, pc, day, hour, hour_it, live_congestion,
                   vehicle_log, pedestrian_log, vehicles_csv, pedestrians_csv, origins, start,
                   ped_left>>

\* dest = random.choice(possible_dests); precomputed_paths[start][dest] raises KeyError: continue
VehicleDrop ==
    /\ pc = "veh_loop"
    /\ veh_left > 0
    /\ \E i \in 1..Len(possible_dests(start)) :
         LET d == possible_dests(start)[i]
         IN  /\ d \notin DOMAIN precomputed_paths[start]
             /\ dest' = d
             /\ Rand("choice", <<Len(possible_dests(start))>>, <<i>>)
    /\ veh_left' = veh_left - 1
    /\ trips' = trips + 1
    /\ UNCHANGED <<config, probe, set_order, pc, day, hour, hour_it, id_counter, live_congestion,
                   vehicle_log, pedestrian_log, vehicles_csv, pedestrians_csv, origins, start,
                   ped_left>>

\* dest = random.choice(possible_dests); the path is found: penalty, recording, record, id (lines 145-165)
VehicleTrip ==
    /\ pc = "veh_loop"
    /\ veh_left > 0
    /\ \E i \in 1..Len(possible_dests(start)) :
         LET d == possible_dests(start)[i]
         IN  /\ d \in DOMAIN precomputed_paths[start]
             /\ dest' = d
             /\ Rand("choice", <<Len(possible_dests(start))>>, <<i>>)
             /\ LET path == precomputed_paths[start][d]
                    done == ProcessTrip(live_congestion, path)
                IN  /\ live_congestion' = done.live_congestion
                    /\ vehicle_log' = Append(vehicle_log,
                           TripRecord("veh", id_counter, start, d, path, hour, day,
                                      done.congestion_delay))
    /\ id_counter' = NextId(id_counter)
    /\ veh_left' = veh_left - 1
    /\ trips' = trips + 1
    /\ UNCHANGED <<config, probe, set_order, pc, day, hour, hour_it, pedestrian_log, vehicles_csv,
                   pedestrians_csv, origins, start, ped_left>>

\* range(veh_count) is exhausted: on to the pedestrian loop.
VehicleLoopExit ==
    /\ pc = "veh_loop"
    /\ veh_left = 0
    /\ pc' = "ped_loop"
    /\ NoRand
    /\ UNCHANGED <<config, probe, set_order, day, hour, hour_it, id_counter, live_congestion,
                   vehicle_log, pedestrian_log, vehicles_csv, pedestrians_csv, origins, start,
                   veh_left, ped_left, dest, trips>>

\* dest drawn, precomputed_paths[start][dest] raises KeyError: continue
PedestrianDrop ==
    /\ pc = "ped_loop"
    /\ ped_left > 0
    /\ \E i \in 1..Len(PedestrianDests(start)) :
         LET d == PedestrianDests(start)[i]
         IN  /\ d \notin DOMAIN precomputed_paths[start]
             /\ dest' = d
             /\ Rand("choice", <<Len(PedestrianDests(start))>>, <<i>>)
    /\ ped_left' = ped_left - 1
    /\ trips' = trips + 1
    /\ UNCHANGED <<config, probe, set_order, pc, day, hour, hour_it, id_counter, live_congestion,
                   vehicle_log, pedestrian_log, vehicles_csv, pedestrians_csv, origins, start,
                   veh_left>>

\* dest drawn, the path is found: penalty, recording, record, id (lines 168-188)
PedestrianTrip ==
    /\ pc = "ped_loop"
    /\ ped_left > 0
    /\ \E i \in 1..Len(PedestrianDests(start)) :
         LET d == PedestrianDests(start)[i]
         IN  /\ d \in DOMAIN precomputed_paths[start]
             /\ dest' = d
             /\ Rand("choice", <<Len(PedestrianDests(start))>>, <<i>>)
             /\ LET path == precomputed_paths[start][d]
                    done == ProcessTrip(live_congestion, path)
                IN  /\ live_congestion' = done.live_congestion
                    /\ pedestrian_log' = Append(pedestrian_log,
                           TripRecord("ped", id_counter, start, d, path, hour, day,
                                      done.congestion_delay))
    /\ id_counter' = NextId(id_counter)
    /\ ped_left' = ped_left - 1
    /\ trips' = trips + 1
    /\ UNCHANGED <<config, probe, set_order, pc, day, hour, hour_it, vehicle_log, vehicles_csv,
                   pedestrians_csv, origins, start, veh_left>>

\* range(ped_count) is exhausted: on to the next origin.
PedestrianLoopExit ==
    /\ pc = "ped_loop"
    /\ ped_left = 0
    /\ pc' = "origin_loop"
    /\ NoRand
    /\ UNCHANGED <<config, probe, set_order, day, hour, hour_it, id_counter, live_congestion,
                   vehicle_log, pedestrian_log, vehicles_csv, pedestrians_csv, origins, start,
                   veh_left, ped_left, dest, trips>>

Next ==
    \/ DayStart
    \/ RunCompleted
    \/ HourStart
    \/ HourSampleError
    \/ DayEnd
    \/ OriginStart
    \/ HourEnd
    \/ VehicleSkip
    \/ VehicleDrop
    \/ VehicleTrip
    \/ VehicleLoopExit
    \/ PedestrianDrop
    \/ PedestrianTrip
    \/ PedestrianLoopExit

Spec == Init /\ [][Next]_vars

\* main() is one sequential thread: whenever it has a next statement it executes it.
\* The runs followed to their end: every step of main() occurs in them.
InitFair ==
    \/ Start("free", {GridE}, {-1, 1}, {1, 2})
    \/ Start("free", {GridC}, {1}, {1})
    \/ StartHours("free", {GridC}, {0}, {1, 2}, HoursOfDay)

SpecFair == InitFair /\ [][Next]_vars /\ WF_vars(Next)

\* --------------------------------------------------- the run made a second time

\* The program is started again on the same graph with the same inputs, in a new
\* process (its sets enumerate in an order of their own) and with the random
\* module seeded as in the first run: every call that repeats a call of the
\* first run returns what it returned then.  The second run is followed for as
\* long as its calls are those of the first.
SecondRun ==
    /\ mode = "record"
    /\ pc = "completed"
    /\ first_run' = <<vehicles_csv, pedestrians_csv>>
    /\ mode' = "replay"
    /\ tape_pos' = 1
    /\ set_order' \in SetOrders(G)
    /\ pc' = "day_loop"
    /\ day' = 0
    /\ hour' = 0
    /\ hour_it' = 0
    /\ id_counter' = 1
    /\ live_congestion' = <<>>
    /\ vehicle_log' = <<>>
    /\ pedestrian_log' = <<>>
    /\ vehicles_csv' = <<>>
    /\ pedestrians_csv' = <<>>
    /\ origins' = <<>>
    /\ start' = ""
    /\ veh_left' = 0
    /\ ped_left' = 0
    /\ dest' = ""
    /\ trips' = 0
    /\ UNCHANGED <<config, probe, tape>>

InitReplay == Start("record", Grids, {-1, 1}, {1})

NextReplay == Next \/ SecondRun

SpecReplay == InitReplay /\ [][NextReplay]_vars

\* --------------------------------------------------- the penalty tried on its own

\* get_path_congestion_penalty(path) for a path of the table, under the counters as they are.
PenaltyCall ==
    /\ pc \in {"called", "returned"}
    /\ \E s \in DOMAIN precomputed_paths : \E t \in DOMAIN precomputed_paths[s] :
         /\ pen_path' = precomputed_paths[s][t]
         /\ pen_value' = get_path_congestion_penalty(G, live_congestion, precomputed_paths[s][t])
    /\ pc' = "returned"
    /\ NoRand
    /\ UNCHANGED <<config, set_order, day, hour, hour_it, id_counter, live_congestion,
                   vehicle_log, pedestrian_log, vehicles_csv, pedestrians_csv, origins, start,
                   veh_left, ped_left, dest, trips, mult_weekend, mult_value>>

\* update_live_congestion(path) for the path of the last call.
RecordCall ==
    /\ pc = "returned"
    /\ \A i \in 1..(Len(pen_path) - 1) :
          Usage(live_congestion, <<pen_path[i], pen_path[i + 1]>>) < MaxUsage
    /\ live_congestion' = update_live_congestion(live_congestion, pen_path)
    /\ pc' = "called"
    /\ NoRand
    /\ UNCHANGED <<config, probe, set_order, day, hour, hour_it, id_counter, vehicle_log,
                   pedestrian_log, vehicles_csv, pedestrians_csv, origins, start, veh_left,
                   ped_left, dest, trips>>

InitPenalty ==
    /\ G \in PenaltyGraphs
    /\ hours_in_day = HoursOfDay
    /\ set_order = NodeList(G)
    /\ precomputed_paths = all_pairs_dijkstra_path(G)
    /\ intersections_per_hour = 1
    /\ days_to_simulate = 1
    /\ pc = "called"
    /\ day = 1
    /\ hour = 0
    /\ hour_it = 1
    /\ id_counter = 1
    /\ live_congestion = <<>>
    /\ vehicle_log = <<>>
    /\ pedestrian_log = <<>>
    /\ vehicles_csv = <<>>
    /\ pedestrians_csv = <<>>
    /\ origins = <<>>
    /\ start = ""
    /\ veh_left = 0
    /\ ped_left = 0
    /\ dest = ""
    /\ trips = 0
    /\ mode = "free"
    /\ tape = <<>>
    /\ tape_pos = 1
    /\ first_run = <<>>
    /\ pen_path = <<>>
    /\ pen_value = 0
    /\ mult_weekend = FALSE
    /\ mult_value = 0

NextPenalty == PenaltyCall \/ RecordCall

SpecPenalty == InitPenalty /\ [][NextPenalty]_vars

\* ------------------------------------- the time multiplier tried on its own

\* The day and hour loops with nothing sampled: is_weekend (line 122) and
\* traffic_multiplier(hour, is_weekend) (line 56) for the hour reached.
MultiplierCall ==
    /\ pc = "mult_called"
    /\ mult_weekend' = IsWeekend(day)
    /\ mult_value' = traffic_multiplier(hour, IsWeekend(day))
    /\ pc' = "mult_returned"
    /\ NoRand
    /\ UNCHANGED <<config, set_order, day, hour, hour_it, id_counter, live_congestion,
                   vehicle_log, pedestrian_log, vehicles_csv, pedestrians_csv, origins, start,
                   veh_left, ped_left, dest, trips, pen_path, pen_value>>

\* The next hour of range(0, 24), or the first hour of the next day.
MultiplierNextHour ==
    /\ pc = "mult_returned"
    /\ hour + 1 < hours_in_day \/ day < MaxDays
    /\ hour' = IF hour + 1 < hours_in_day THEN hour + 1 ELSE 0
    /\ day' = IF hour + 1 < hours_in_day THEN day ELSE day + 1
    /\ pc' = "mult_called"
    /\ NoRand
    /\ UNCHANGED <<config, probe, set_order, hour_it, id_counter, live_congestion,
                   vehicle_log, pedestrian_log, vehicles_csv, pedestrians_csv, origins, start,
                   veh_left, ped_left, dest, trips>>

InitMultiplier ==
    /\ G = GridC
    /\ hours_in_day = HoursOfDay
    /\ set_order = NodeList(G)
    /\ precomputed_paths = all_pairs_dijkstra_path(G)
    /\ intersections_per_hour = 1
    /\ days_to_simulate = MaxDays
    /\ pc = "mult_called"
    /\ day = 1
    /\ hour = 0
    /\ hour_it = 1
    /\ id_counter = 1
    /\ live_congestion = <<>>
    /\ vehicle_log = <<>>
    /\ pedestrian_log = <<>>
    /\ vehicles_csv = <<>>
    /\ pedestrians_csv = <<>>
    /\ origins = <<>>
    /\ start = ""
    /\ veh_left = 0
    /\ ped_left = 0
    /\ dest = ""
    /\ trips = 0
    /\ mode = "free"
    /\ tape = <<>>
    /\ tape_pos = 1
    /\ first_run = <<>>
    /\ pen_path = <<>>
    /\ pen_value = 0
    /\ mult_weekend = FALSE
    /\ mult_value = 0

NextMultiplier == MultiplierCall \/ MultiplierNextHour

SpecMultiplier == InitMultiplier /\ [][NextMultiplier]_vars

\* ------------------------------------------------------------ reading the logs

\* The vehicle records emitted so far, in the order of emission: the rows of the
\* file, and the records of the hour in progress that are not yet in it.
VehicleTrips ==
    IF pc \in {"origin_loop", "veh_loop", "ped_loop"} THEN vehicles_csv \o vehicle_log
    ELSE vehicles_csv

PedestrianTrips ==
    IF pc \in {"origin_loop", "veh_loop", "ped_loop"} THEN pedestrians_csv \o pedestrian_log
    ELSE pedestrians_csv

AllTrips == Range(VehicleTrips) \cup Range(PedestrianTrips)

\* The number and the prefix an id string was formatted from.
IdNumber(id) == CHOOSE n \in 0..(MaxTrips + 2) : \E pre \in {"veh", "ped"} : FormatId(pre, n) = id

IdPrefix(id) == CHOOSE pre \in {"veh", "ped"} : \E n \in 0..(MaxTrips + 2) : FormatId(pre, n) = id

\* The path of a record, from the table.
PathOf(r) == precomputed_paths[r.from][r.to]

Roads == DOMAIN G.edge

Traverses(r, e) == \E i \in 1..(Len(PathOf(r)) - 1) : <<PathOf(r)[i], PathOf(r)[i + 1]>> = e

\* The counters as the trips of the same day emitted before r left them.
UsageBefore(r) ==
    [e \in Roads |->
        Cardinality({q \in AllTrips :
            q.day = r.day /\ IdNumber(q.id) < IdNumber(r.id) /\ Traverses(q, e)})]

InvalidConfiguration == days_to_simulate <= 0 \/ intersections_per_hour <= 0

\* ------------------------------------------------------------------------ claims

\* C1: at the start of every simulated day, before its first hour is processed,
\* the usage counter of every road is 0, whatever was recorded on earlier days.
C1_DayStartsAtZero ==
    (pc = "hour_loop" /\ hour_it = 0) => \A e \in Roads : Usage(live_congestion, e) = 0

\* C1 witness: the second day starts after a trip of the first day used a road.
C1_Witness ==
    /\ pc = "hour_loop" /\ hour_it = 0 /\ day = 2
    /\ \E r \in AllTrips : r.day = 1 /\ Len(PathOf(r)) >= 2

\* C2: the penalty of every trip is computed from the counters as the earlier
\* trips of its day left them, its own traversal not counted, every earlier one counted.
C2_PenaltyBeforeOwnUsage ==
    \A r \in AllTrips :
        r.congestion_penalty = Round2(get_path_congestion_penalty(G, UsageBefore(r), PathOf(r)))

\* C2 witness: a trip that follows another one of its day over a road they share.
C2_Witness ==
    \E r \in AllTrips : \E e \in Roads : Traverses(r, e) /\ UsageBefore(r)[e] >= 1

C4_UsageMonotoneInDay ==
    [][day' = day => \A e \in Roads : Usage(live_congestion', e) >= Usage(live_congestion, e)]_vars

\* C4 witness: an hour other than the first of its day has begun, nothing is
\* recorded in it yet, and a counter still holds the traversals of the hour before.
C4_Witness ==
    /\ pc = "veh_loop" /\ hour = 1 /\ vehicle_log = <<>> /\ pedestrian_log = <<>>
    /\ \E e \in Roads : Usage(live_congestion, e) >= 1

\* C6 as stated: vehicle ids and pedestrian ids are independent sequences, the
\* k-th vehicle trip being numbered k however many pedestrian trips were
\* emitted, and the k-th pedestrian trip likewise.
C6_IndependentSequences ==
    /\ \A i \in 1..Len(VehicleTrips) : IdNumber(VehicleTrips[i].id) = i
    /\ \A i \in 1..Len(PedestrianTrips) : IdNumber(PedestrianTrips[i].id) = i

\* C6 as amended: each log is strictly increasing in its id numbers and carries
\* its own prefix, and both are numbered from the one shared counter: together
\* the numbers of the two logs are exactly 1 .. id_counter - 1, none used twice.
C6_SharedCounter ==
    /\ \A i, j \in 1..Len(VehicleTrips) :
          i < j => IdNumber(VehicleTrips[i].id) < IdNumber(VehicleTrips[j].id)
    /\ \A i, j \in 1..Len(PedestrianTrips) :
          i < j => IdNumber(PedestrianTrips[i].id) < IdNumber(PedestrianTrips[j].id)
    /\ \A i \in 1..Len(VehicleTrips) : IdPrefix(VehicleTrips[i].id) = "veh"
    /\ \A i \in 1..Len(PedestrianTrips) : IdPrefix(PedestrianTrips[i].id) = "ped"
    /\ {IdNumber(r.id) : r \in AllTrips} = 1..(id_counter - 1)
    /\ Len(VehicleTrips) + Len(PedestrianTrips) = id_counter - 1

\* C6 witness: a vehicle trip numbered past its place in the vehicle log,
\* because a pedestrian trip took a number before it.
C6_Witness ==
    \E i \in 1..Len(VehicleTrips) :
        /\ IdNumber(VehicleTrips[i].id) > i
        /\ \E r \in Range(PedestrianTrips) : IdNumber(r.id) < IdNumber(VehicleTrips[i].id)

\* C7: every trip emitted gets an id number greater than that of every trip
\* emitted before it, and the counter never goes back, at no hour or day boundary.
C7_IdsStrictlyIncreasing ==
    [][/\ id_counter' >= id_counter
       /\ \A r \in AllTrips' \ AllTrips : \A q \in AllTrips : IdNumber(r.id) > IdNumber(q.id)]_vars

\* C7 witness: the first trip of the second day is numbered right after a trip of the first day.
C7_Witness ==
    \E r, q \in AllTrips : r.day = 1 /\ q.day = 2 /\ IdNumber(q.id) = IdNumber(r.id) + 1

\* C8: a trip whose destination has no path from the origin is dropped and the
\* run goes on: no record, the id counter and every usage counter unchanged.
C8_DroppedTripLeavesNoTrace ==
    [][(/\ pc \in {"veh_loop", "ped_loop"}
        /\ trips' = trips + 1
        /\ dest' \notin DOMAIN precomputed_paths[start])
       => /\ id_counter' = id_counter
          /\ live_congestion' = live_congestion
          /\ AllTrips' = AllTrips
          /\ vehicle_log' = vehicle_log
          /\ pedestrian_log' = pedestrian_log
          /\ pc' = pc]_vars

\* C8 witness: the first trip attempted in the run drew a destination with no
\* path from its origin, and the run is still in the loop with no id used.
C8_Witness ==
    /\ pc \in {"veh_loop", "ped_loop"} /\ trips = 1 /\ dest # ""
    /\ dest \notin DOMAIN precomputed_paths[start]
    /\ id_counter = 1 /\ AllTrips = {}

\* C9 as stated: with a non-positive days_to_simulate or intersections_per_hour
\* no day or hour is processed, no trip is emitted and the run does not complete.
C9_InvalidConfigurationRejected ==
    InvalidConfiguration => (day = 0 /\ pc \notin {"hour_loop", "completed"} /\ AllTrips = {})

\* The penalty as the claim words it, in thousandths: over the roads of the
\* path, base x (1 + usage x 0.05) + base_delay with base 0.2 from a capacity of
\* 300 up and 0.5 below (capacity 300 and delay 0 when left out); plus the
\* traffic-light delay of every intersection of the path but the last.
ClaimedRoadTerm(lc, e) ==
    LET capacity == IF "capacity" \in DOMAIN G.edge[e] THEN G.edge[e].capacity ELSE 300
        base_delay == IF "delay" \in DOMAIN G.edge[e] THEN G.edge[e].delay ELSE 0
        base == IF capacity >= 300 THEN 200 ELSE 500
        usage == IF e \in DOMAIN lc THEN lc[e] ELSE 0
    IN  base + (base * usage) \div 20 + base_delay

ClaimedLightTerm(u) ==
    IF "traffic_light" \in DOMAIN G.node[u] /\ G.node[u].traffic_light
    THEN IF "traffic_light_delay" \in DOMAIN G.node[u] THEN G.node[u].traffic_light_delay ELSE 0
    ELSE 0

ClaimedPenalty(lc, path) ==
    SumSeq([i \in 1..(Len(path) - 1) |-> ClaimedRoadTerm(lc, <<path[i], path[i + 1]>>)])
    + SumSeq([i \in 1..(Len(path) - 1) |-> ClaimedLightTerm(path[i])])

\* C5: for every path and every usage state, get_path_congestion_penalty returns
\* the sum the claim gives: the congestion and delay terms of the roads, and
\* the light delays of all intersections of the path except the final one.
C5_PenaltyFormula ==
    pc = "returned" => pen_value = ClaimedPenalty(live_congestion, pen_path)

\* C5 witness: the example of the claim, a road of capacity 250 after 3
\* traversals, contributes 0.575 plus its delay (here 0.1, and 0.12 for the
\* light of its origin); its final intersection adds nothing.
C5_Witness ==
    /\ pc = "returned"
    /\ pen_path = <<"A1", "A2">>
    /\ G.edge[<<"A1", "A2">>] = EdgeData(120, 250, 100)
    /\ Usage(live_congestion, <<"A1", "A2">>) = 3
    /\ pen_value = 575 + 100 + 120

\* C10 as stated: a second run on the same graph, with the same inputs and the
\* same seed, ends with the same two logs as the first.
C10_SameSeedSameLogs ==
    (mode = "replay" /\ pc = "completed") => <<vehicles_csv, pedestrians_csv>> = first_run

\* The intersections other than s that the Path Index reaches from s over at most k roads.
ReachableWithin(s, k) ==
    {n \in Range(intersections) :
        n # s /\ n \in DOMAIN precomputed_paths[s] /\ Len(precomputed_paths[s][n]) - 1 <= k}

\* The set the pedestrian destination is drawn from, as the claim words it for
\* a limit of k roads: the nearby set, all intersections when it is empty.
ClaimedPedestrianDests(s, k) ==
    IF ReachableWithin(s, k) # {} THEN ReachableWithin(s, k) ELSE Range(intersections)

\* C11 as stated: the pedestrian destination is drawn from the intersections
\* within 4 roads of the origin, each of them a possible draw, and from all
\* intersections only when there is none.
C11_NearbyWithinFourRoads ==
    /\ (pc = "ped_loop" /\ ped_left > 0)
          => Range(PedestrianDests(start)) = ClaimedPedestrianDests(start, 4)
    /\ \A r \in Range(PedestrianTrips) : r.to \in ClaimedPedestrianDests(r.from, 4)

\* C11 as amended: the limit is a path of at most 4 intersections, that is 3
\* roads: the destination is drawn from the intersections other than the origin
\* within 3 roads of it, each of them a possible draw, and from all
\* intersections (the origin included) only when there is none; every
\* pedestrian record ends in such a destination.
C11_NearbyWithinThreeRoads ==
    /\ (pc = "ped_loop" /\ ped_left > 0)
          => Range(PedestrianDests(start)) = ClaimedPedestrianDests(start, 3)
    /\ \A r \in Range(PedestrianTrips) : r.to \in ClaimedPedestrianDests(r.from, 3)

\* C11 witness: a pedestrian trip was emitted from an origin that has an
\* intersection exactly 4 roads away, and another pedestrian draw is about to
\* be made from that origin.
C11_Witness ==
    /\ pc = "ped_loop" /\ ped_left > 0
    /\ ReachableWithin(start, 4) # ReachableWithin(start, 3)
    /\ \E r \in Range(PedestrianTrips) : r.from = start

\* The populations an hour can sample from: the residential intersections, or
\* all intersections when they are fewer than intersections_per_hour (80 % of
\* the hours), or all intersections (the other hours).
ClaimedPopulations ==
    {IF Cardinality(Range(residential_nodes)) >= intersections_per_hour
     THEN Range(residential_nodes) ELSE Range(intersections),
     Range(intersections)}

\* C12: the origins sampled for an hour are pairwise distinct members of the
\* selected population and exactly min(intersections_per_hour, size of the
\* population) many, and the hour processes each of them once, in the order sampled.
C12_OriginsWithoutReplacement ==
    [][/\ (pc = "hour_loop" /\ pc' = "origin_loop")
           => /\ \A i, j \in 1..Len(origins') : i # j => origins'[i] # origins'[j]
              /\ \E population \in ClaimedPopulations :
                    /\ Range(origins') \subseteq population
                    /\ Len(origins') = Min(intersections_per_hour, Cardinality(population))
       /\ (pc = "origin_loop" /\ pc' = "veh_loop")
           => (origins = <<start'>> \o origins' /\ start' \notin Range(origins'))
       /\ (pc \in {"veh_loop", "ped_loop"}) => (origins' = origins /\ start' = start)]_vars

\* C12 witness: with fewer residential intersections than requested, the
\* second origin of an hour is being processed, it is not residential, and
\* nothing is left of the sample of two.
C12_Witness ==
    /\ pc = "veh_loop" /\ origins = <<>>
    /\ intersections_per_hour = 2
    /\ Cardinality(Range(residential_nodes)) < intersections_per_hour
    /\ start \notin Range(residential_nodes)
    /\ \E r \in AllTrips : r.from # start /\ r.hour = hour /\ r.day = day

\* The destinations a vehicle trip from s can have, as the claim words them:
\* commercial or industrial, other than s, and reachable from s.
VehicleTargets(s) ==
    {n \in DOMAIN G.node :
        /\ n # s
        /\ "zone" \in DOMAIN G.node[n] /\ G.node[n].zone \in {"commercial", "industrial"}
        /\ n \in DOMAIN precomputed_paths[s]}

\* C13: every vehicle record ends in a commercial or industrial intersection
\* other than its origin and reachable from it; an origin without such an
\* intersection has no vehicle record, whatever vehicle_count was drawn for it.
C13_VehicleDestinations ==
    /\ \A r \in Range(VehicleTrips) : r.to \in VehicleTargets(r.from)
    /\ \A s \in DOMAIN G.node :
          VehicleTargets(s) = {} => \A r \in Range(VehicleTrips) : r.from # s

\* C13 witness: after a vehicle trip was emitted in the hour before, the
\* vehicle loop of an origin that reaches no commercial or industrial
\* intersection has run an iteration and ended with no record for that origin.
C13_Witness ==
    /\ pc = "veh_loop" /\ veh_left = 0 /\ hour = 1
    /\ VehicleTargets(start) = {}
    /\ Len(VehicleTrips) = 1 /\ Len(PedestrianTrips) = 0
    /\ VehicleTrips[1].hour = 0 /\ VehicleTrips[1].from # start
    /\ trips = 2

\* The static floor of a path, in thousandths: its roads' base congestion at
\* zero usage, 0.2 from a capacity of 300 up (or none given) and 0.5 below.
StaticFloor(path) ==
    SumSeq([i \in 1..(Len(path) - 1) |->
        LET road == G.edge[<<path[i], path[i + 1]>>]
        IN  IF "capacity" \in DOMAIN road /\ road.capacity < 300 THEN 500 ELSE 200])

\* C14: the penalty of every record emitted is not negative and not below the
\* static floor of its path, so it is at least 0.2 when the path has a road.
C14_PenaltyAtLeastFloor ==
    \A r \in AllTrips :
        /\ r.congestion_penalty >= 0
        /\ r.congestion_penalty * 10 >= StaticFloor(PathOf(r))
        /\ (Len(PathOf(r)) >= 2 => r.congestion_penalty >= 20)

\* C14 witness: a pedestrian record from an origin to itself, drawn by the
\* fallback, with a path of no road and penalty 0, next to a record over a road.
C14_Witness ==
    \E r, q \in AllTrips :
        /\ r.from = r.to /\ Len(PathOf(r)) = 1 /\ r.congestion_penalty = 0
        /\ IdPrefix(r.id) = "ped"
        /\ Len(PathOf(q)) >= 2 /\ q.congestion_penalty * 10 >= StaticFloor(PathOf(q))

\* The time multiplier as the claim tabulates it, in tenths.
ClaimedMultiplier(h, weekend) ==
    IF weekend
    THEN IF h \in 14..18 THEN 15 ELSE 6
    ELSE CASE h \in 7..9 -> 20
           [] h \in 17..20 -> 25
           [] h \in 12..14 -> 7
           [] h \in 0..5 -> 3
           [] OTHER -> 5

\* C15: for every day from 1 on and every hour 0..23, is_weekend is true
\* exactly when day mod 7 is 6 or 0, and the time multiplier is the one of the
\* claim's table for that hour and flag.
C15_WeekendAndMultiplier ==
    pc = "mult_returned"
        => /\ day >= 1 /\ hour \in 0..23
           /\ mult_weekend = ((day % 7 = 6) \/ (day % 7 = 0))
           /\ mult_value = ClaimedMultiplier(hour, (day % 7 = 6) \/ (day % 7 = 0))

\* C15 witness: 14:00 on day 7, a weekend day (7 mod 7 = 0): multiplier 1.5,
\* where a weekday would give 0.7.
C15_Witness ==
    /\ pc = "mult_returned" /\ day = 7 /\ hour = 14
    /\ mult_weekend /\ mult_value = 15

\* A run of at least one day whose sample size random.sample accepts.
RunsToCompletion == days_to_simulate >= 1 /\ intersections_per_hour >= 0

\* (d1, h1) is before or at (d2, h2) in the order of the loops.
LexLeq(d1, h1, d2, h2) == d1 < d2 \/ (d1 = d2 /\ h1 <= h2)

\* A day begins only when the day before is processed through its last hour,
\* an hour begins only right after the hour before it (hour 0 first), the run
\* completes only after the last hour of day D, and a record emitted carries
\* the day and the hour of the iteration that is running.
LoopsInOrder ==
    /\ (pc = "day_loop" /\ pc' = "hour_loop")
          => /\ day' = day + 1 /\ day' \in 1..days_to_simulate
             /\ (day = 0 \/ (hour = hours_in_day - 1 /\ hour_it = hours_in_day))
    /\ (pc = "hour_loop" /\ pc' = "origin_loop")
          => /\ day' = day /\ hour' \in 0..(hours_in_day - 1)
             /\ hour' = IF hour_it = 0 THEN 0 ELSE hour + 1
    /\ (pc # "completed" /\ pc' = "completed")
          => day = days_to_simulate /\ hour = hours_in_day - 1 /\ hour_it = hours_in_day
    /\ day' # day => (pc = "day_loop" /\ pc' = "hour_loop")
    /\ hour' # hour => (pc = "hour_loop" /\ pc' = "origin_loop")
    /\ pc' # "aborted"
    /\ \A r \in AllTrips' \ AllTrips : r.day = day /\ r.hour = hour /\ day' = day /\ hour' = hour

\* Each log is non-decreasing in (day, hour), within the days and hours of the run.
LogsInOrder ==
    \A log \in {VehicleTrips, PedestrianTrips} :
        /\ \A i \in 1..Len(log) :
              log[i].day \in 1..days_to_simulate /\ log[i].hour \in 0..(hours_in_day - 1)
        /\ \A i, j \in 1..Len(log) :
              i < j => LexLeq(log[i].day, log[i].hour, log[j].day, log[j].hour)

C16_WholeDays ==
    /\ hours_in_day = HoursOfDay /\ days_to_simulate = 2
    /\ day = 2 /\ hour = 23 /\ pc = "origin_loop"

\* The trips emitted so far in the current day whose path traverses the road e.
EmittedToday(e) == {r \in AllTrips : r.day = day /\ Traverses(r, e)}

\* C17: in every reachable state the usage counter of every road equals the
\* number of trips emitted so far in the current day whose path traverses it,
\* and there is no counter for anything but a road: no trip is recorded without
\* being emitted or emitted without being recorded, and a recording touches
\* the roads of its own path only.
C17_UsageConservation ==
    /\ \A e \in Roads : Usage(live_congestion, e) = Cardinality(EmittedToday(e))
    /\ DOMAIN live_congestion \subseteq Roads

\* C17 witness: on the second day a road has been traversed by a trip of two
\* roads; its counter is 1 although a trip of the first day traversed it too.
C17_Witness ==
    /\ day = 2
    /\ \E e \in Roads :
          /\ Usage(live_congestion, e) = 1
          /\ Cardinality({r \in AllTrips : Traverses(r, e)}) = 2
          /\ \E r \in EmittedToday(e) : Len(PathOf(r)) >= 3
====
